---- MODULE Spec2Model ----
(***************************************************************************)
(* Batch-swap settlement of the DEX component:                             *)
(*   HandleBatchSwaps::handle_batch_swaps and RouteAndFill::route_and_fill *)
(*   (crates/core/component/dex/src/component/router/route_and_fill.rs).   *)
(*                                                                         *)
(* One behaviour is one call of handle_batch_swaps.  The Router            *)
(* (path_search), the Fill Executor (fill_route), close_position_by_id and *)
(* the non-verifiable storage are collaborators: every response they can   *)
(* give is drawn with \E.  Option<T> is written as a set: {} is None and   *)
(* {x} is Some(x).                                                         *)
(***************************************************************************)
EXTENDS Integers, Sequences, FiniteSets, TLC

(***************************************************************************)
(* Bounds of the model.                                                    *)
(***************************************************************************)
\* delta_1 and delta_2 of the SwapFlow range over 0..MaxDelta
MaxDelta == 3
\* the output amount one execution reports ranges over 0..MaxOut
MaxOut == 1

(***************************************************************************)
(* Program constants, scaled down.  The source's MAX_RESERVE_AMOUNT is far  *)
(* above what TLC's integers hold; the code only compares amounts with it. *)
(* The breaker's limits are "fixed, small, system-wide constants"; the     *)
(* code only counts up to them.                                            *)
(***************************************************************************)
\* lp::position::MAX_RESERVE_AMOUNT (lines 17, 178)
MAX_RESERVE_AMOUNT == 2
\* ExecutionCircuitBreaker::default(): the limits of the two counters
MAX_PATH_SEARCHES == 2
MAX_EXECUTIONS == 2

Positions == {"p1", "p2"}
\* what max_price() of an execution can be, and the price limits tried: a
\* price below, at and above the limit
Prices == {1, 2, 3}
PriceLimits == {{}, {2}}
\* what the storage can hold under aggregate_value(): nothing, or a value
\* circuit breaker with one unit of asset 1 and none or one of asset 2
StoredBreakers == {{}} \cup {{[a \in {1, 2} |-> IF a = 1 THEN 1 ELSE v]} : v \in {0, 1}}
Assets == {1, 2}

\* lines 37-41: the arguments handle_batch_swaps only hands on to the record:
\* the trading pair (asset_1 is the input of direction 1, asset_2 of
\* direction 2), the block height and the height the epoch started at
trading_pair == [asset_1 |-> 1, asset_2 |-> 2]
block_height == 7
epoch_starting_height == 5

Min(a, b) == IF a <= b THEN a ELSE b

VARIABLES
    \* ---- arguments of handle_batch_swaps
    delta_1, delta_2,          \* batch_data.0, batch_data.1
    price_limit,               \* params.price_limit : Option<price>
    \* ---- the state handle
    other_refs,                \* TRUE while another Arc to the state exists
    nv_value_breaker,          \* nonverifiable storage under aggregate_value(): Option<[Assets -> amount]>
    output_data,               \* what set_output_data stored: Option<BatchSwapOutputData>
    stored_executions,         \* the two Option<SwapExecution> stored with it
    \* ---- locals of handle_batch_swaps
    pc,
    value_circuit_breaker,     \* the snapshot taken at lines 55-64
    swap_execution_1_for_2,    \* Option<SwapExecution>
    swap_execution_2_for_1,
    \* ---- locals of the running route_and_fill call
    dir,                       \* direction of the current or last call: 1 is asset_1 -> asset_2,
                               \* 2 is asset_2 -> asset_1, 0 before the first call
    input,
    total_unfilled_1,
    total_output_2,
    traces,
    execution_circuit_breaker, \* the call's own copy
    culprit,                   \* position named by ExecutionOverflow, Option<Position>
    \* ---- how the call ended
    failure,                   \* message of the error returned or of the panic, "" if none
    \* ---- history (not read by the code)
    consumed,                  \* per direction: sum of execution.input.amount over the successful fills
    \* of the current or last route_and_fill call:
    calls,                     \* number of path_search, fill_route, close_position_by_id calls
    passed,                    \* the input Value of the last fill_route call, Option<Value>
    produced,                  \* sum of execution.output.amount over the successful fills
    closed,                    \* the positions closed
    overflowed,                \* the positions named by ExecutionOverflow failures
    overflows,                 \* number of ExecutionOverflow failures
    price_hit,                 \* a successful execution had max_price >= price_limit
    fill_failures,             \* number of fill_route failures other than ExecutionOverflow
    search_failures,           \* number of path_search failures
    writes,                    \* number of set_output_data calls
    \* ---- the run held against itself (used by DetSpec only)
    phase,                     \* "off", or where the comparison of a step stands
    response,                  \* what the environment answered in the step compared
    saved,                     \* the state the step started from, Option<state>
    first                      \* the state the step led to the first time, Option<state>

args == <<delta_1, delta_2, price_limit>>
store == <<nv_value_breaker, output_data, stored_executions, writes>>
results == <<swap_execution_1_for_2, swap_execution_2_for_1>>
loop == <<input, total_unfilled_1, total_output_2, traces, execution_circuit_breaker, culprit>>
answers == <<overflowed, overflows, fill_failures, search_failures>>
history == <<consumed, calls, passed, produced, closed, price_hit, answers>>
program == <<args, other_refs, store, pc, value_circuit_breaker, results, dir, loop,
             failure, history>>
twice == <<phase, response, saved, first>>
vars == <<program, twice>>

(***************************************************************************)
(* Data types                                                              *)
(***************************************************************************)
\* ExecutionCircuitBreaker::default(): both counters at zero
ExecutionCircuitBreakerDefault ==
    [current_path_searches |-> 0, current_executions |-> 0]

\* ExecutionCircuitBreaker::exceeded_limits
ExceededLimits(b) ==
    \/ b.current_path_searches >= MAX_PATH_SEARCHES
    \/ b.current_executions >= MAX_EXECUTIONS

\* ValueCircuitBreaker::default(): no asset has any balance
ValueCircuitBreakerDefault == [a \in Assets |-> 0]

\* ValueCircuitBreaker::available(asset)
Available(vcb, a) == vcb[a]

NoCalls == [path_search |-> 0, fill_route |-> 0, close_position |-> 0]

InitProgram ==
    /\ delta_1 \in 0..MaxDelta
    /\ delta_2 \in 0..MaxDelta
    /\ price_limit \in PriceLimits
    /\ other_refs \in BOOLEAN
    /\ nv_value_breaker \in StoredBreakers
    /\ output_data = {}
    /\ stored_executions = <<{}, {}>>
    /\ writes = 0
    /\ pc = "load_value_breaker"
    /\ value_circuit_breaker = ValueCircuitBreakerDefault
    /\ swap_execution_1_for_2 = {}
    /\ swap_execution_2_for_1 = {}
    /\ dir = 0
    /\ input = 0
    /\ total_unfilled_1 = 0
    /\ total_output_2 = 0
    /\ traces = <<>>
    /\ execution_circuit_breaker = ExecutionCircuitBreakerDefault
    /\ culprit = {}
    /\ failure = ""
    /\ consumed = [d \in 1..2 |-> 0]
    /\ calls = NoCalls
    /\ passed = {}
    /\ produced = 0
    /\ closed = {}
    /\ overflowed = {}
    /\ overflows = 0
    /\ price_hit = FALSE
    /\ fill_failures = 0
    /\ search_failures = 0

\* what one step met in its environment: the collaborator called and its
\* answer, with the execution or the position that came with the answer
Resp(call, answer) ==
    [call |-> call, answer |-> answer, execution |-> {}, position |-> {}]
NoResponse == Resp("", "")

Init ==
    /\ InitProgram
    /\ phase = "off"
    /\ response = NoResponse
    /\ saved = {}
    /\ first = {}

\* the whole state of the call
State ==
    [delta_1 |-> delta_1, delta_2 |-> delta_2, price_limit |-> price_limit,
     other_refs |-> other_refs, nv_value_breaker |-> nv_value_breaker,
     output_data |-> output_data, stored_executions |-> stored_executions,
     writes |-> writes, pc |-> pc, value_circuit_breaker |-> value_circuit_breaker,
     swap_execution_1_for_2 |-> swap_execution_1_for_2,
     swap_execution_2_for_1 |-> swap_execution_2_for_1,
     dir |-> dir, input |-> input, total_unfilled_1 |-> total_unfilled_1,
     total_output_2 |-> total_output_2, traces |-> traces,
     execution_circuit_breaker |-> execution_circuit_breaker, culprit |-> culprit,
     failure |-> failure, consumed |-> consumed, calls |-> calls, passed |-> passed,
     produced |-> produced, closed |-> closed, overflowed |-> overflowed,
     overflows |-> overflows, price_hit |-> price_hit,
     fill_failures |-> fill_failures, search_failures |-> search_failures]

\* A step that met r in its environment.  Under Spec (phase "off") nothing
\* is kept.  Under DetSpec every step is taken twice from the same state
\* with the same r: a step taken for the first time keeps the state it
\* started from and r; TakeAgain then puts the call back into that state,
\* and the only step allowed from there is one that meets the same r.
Met(r) ==
    /\ phase # "first"
    /\ phase = "again" => r = response
    /\ CASE phase = "off" -> UNCHANGED twice
         [] phase = "again" ->
               /\ phase' = "second"
               /\ response' = NoResponse
               /\ saved' = {}
               /\ first' = first
         [] OTHER ->
               /\ phase' = "first"
               /\ response' = r
               /\ saved' = {State}
               /\ first' = {}

(***************************************************************************)
(* Ways a step ends the call                                               *)
(***************************************************************************)
\* a panic: expect(), assert!, or an Amount subtraction below zero
Panic(msg) ==
    /\ pc' = "panic"
    /\ failure' = msg

\* an error swallowed: the direction is left as if it had produced nothing
BailSwallowed(msg) ==
    /\ pc' = (IF dir = 1 THEN "direction_2" ELSE "assemble")
    /\ failure' = msg

\* `?` and bail!: route_and_fill, and with it handle_batch_swaps, returns Err
Bail(msg) ==
    /\ pc' = "error"
    /\ failure' = msg

\* Amount: `a - b` below zero is a fatal invariant violation
Underflows(a, b) == a < b

\* a mutable reference handed out whoever else holds the state
GetMutShared == TRUE

\* Arc::get_mut(self) is Some only when no other reference exists
GetMut == ~other_refs

(***************************************************************************)
(* route_and_fill                                                          *)
(***************************************************************************)
\* the record assembled as soon as any direction has returned
AfterDirectionAssemble(d) == "assemble"

\* lines 66-98: where handle_batch_swaps goes on after direction d returned
AfterDirection(d) == IF d = 1 THEN "direction_2" ELSE "assemble"

\* lines 295-305: the SwapExecution built after the loop, handed to
\* handle_batch_swaps (lines 66-96), which goes on to the next direction.
ReturnExecution(unfilled, output, trs) ==
    IF Underflows(input, unfilled)
    THEN /\ Panic("attempt to subtract with overflow")
         /\ UNCHANGED <<results, dir>>
    ELSE LET execution == [traces |-> trs,
                           input |-> input - unfilled,
                           output |-> output]
         IN /\ IF dir = 1
               THEN /\ swap_execution_1_for_2' = {execution}
                    /\ UNCHANGED swap_execution_2_for_1
               ELSE /\ swap_execution_2_for_1' = {execution}
                    /\ UNCHANGED swap_execution_1_for_2
            /\ pc' = AfterDirection(dir)
            /\ UNCHANGED <<failure, dir>>

\* the breaker of the previous directional call handed on, as if by reference
BreakerCarriedOver == execution_circuit_breaker

\* lines 51, 73, 89: the breaker a directional call is given: the one made at
\* line 51, cloned for direction 1 and moved into direction 2; route_and_fill
\* takes it by value, so the counting of one call never reaches the caller's
BreakerAtEntry == ExecutionCircuitBreakerDefault

\* lines 157-178: entry of route_and_fill for direction d with input amount amt
EnterRouteAndFill(d, amt) ==
    /\ dir' = d
    /\ input' = amt
    /\ total_unfilled_1' = amt
    /\ total_output_2' = 0
    /\ traces' = <<>>
    /\ execution_circuit_breaker' = BreakerAtEntry
    /\ culprit' = {}
    /\ pc' = "loop_top"
    /\ calls' = NoCalls
    /\ passed' = {}
    /\ produced' = 0
    /\ closed' = {}
    /\ overflowed' = {}
    /\ overflows' = 0
    /\ price_hit' = FALSE
    /\ fill_failures' = 0
    /\ search_failures' = 0
    /\ UNCHANGED consumed

\* lines 186-191: the breaker check that opens every iteration
CheckBreaker ==
    /\ pc = "loop_top"
    /\ IF ExceededLimits(execution_circuit_breaker)
       THEN ReturnExecution(total_unfilled_1, total_output_2, traces)
       ELSE /\ pc' = "path_search"
            /\ UNCHANGED <<results, dir, failure>>
    /\ UNCHANGED <<args, other_refs, store, value_circuit_breaker, loop, history>>
    /\ Met(NoResponse)

\* a path search that is not counted
CountPathSearchForgotten(breaker) == breaker

\* line 210: count the path search
CountPathSearch(breaker) ==
    [breaker EXCEPT !.current_path_searches = @ + 1]

\* line 269: count the execution
CountExecution(breaker) ==
    [breaker EXCEPT !.current_executions = @ + 1]

\* the answers path_search can give: Err, Ok(None), Ok(Some([])), Ok(Some(path))
PathAnswers == {"error", "none", "empty", "path"}

\* lines 193-210: path_search and what the loop does with its answer
PathSearch ==
    /\ pc = "path_search"
    /\ calls' = [calls EXCEPT !.path_search = @ + 1]
    /\ \E answer \in PathAnswers :
        /\ Met(Resp("path_search", answer))
        /\ CASE answer = "error" ->
                   /\ search_failures' = search_failures + 1
                   /\ Bail("error finding best path")
                   /\ UNCHANGED <<results, dir, loop>>
             [] answer \in {"none", "empty"} ->
                   /\ ReturnExecution(total_unfilled_1, total_output_2, traces)
                   /\ UNCHANGED <<loop, search_failures>>
             [] answer = "path" ->
                   /\ UNCHANGED search_failures
                   /\ execution_circuit_breaker' = CountPathSearch(execution_circuit_breaker)
                   /\ pc' = "fill_route"
                   /\ UNCHANGED <<results, dir, failure, input, total_unfilled_1,
                                  total_output_2, traces, culprit>>
    /\ UNCHANGED <<args, other_refs, store, value_circuit_breaker,
                   consumed, passed, produced, closed, price_hit, overflowed,
                   overflows, fill_failures>>

\* the whole of what is unfilled handed on, whatever its size
IterationInputUncapped(unfilled) == unfilled

\* lines 212-215: the input of this iteration
IterationInput(unfilled) == Min(unfilled, MAX_RESERVE_AMOUNT)

\* lines 212-215: delta_1, the Value handed to fill_route, in the input asset
\* of the call (asset_1 for direction 1, asset_2 for direction 2)
Delta1 == [amount |-> IterationInput(total_unfilled_1), asset_id |-> dir]

\* the executions fill_route can report for an input of `amount`: the consumed
\* input, the output with its asset, the traces (named by direction and call
\* number) and what max_price() gives for them
Executions(d, amount) ==
    { [input |-> c, output |-> o, output_asset |-> a, traces |-> t, max_price |-> mp] :
        c \in 0..(amount + 1), o \in 0..MaxOut, a \in Assets,
        t \in {<<>>, << <<d, calls.fill_route + 1>> >>},
        mp \in {{}} \cup {{p} : p \in Prices} }

\* the output of the latest execution kept instead of the sum
NewTotalOutputLatest(execution) == execution.output

\* lines 246-266: the totals after a successful execution
NewTotalOutput(execution) == total_output_2 + execution.output
NewTotalUnfilled(execution) ==
    LET delta == IterationInput(total_unfilled_1)
        unfilled == total_unfilled_1 - execution.input
    IN  total_unfilled_1 - delta + unfilled

\* the traces of the execution put in front of the earlier ones
NewTracesPrepended(execution) == execution.traces \o traces

\* line 260: the traces of the execution appended to the accumulated ones
NewTraces(execution) == traces \o execution.traces

\* lines 282-292: the price limit is reached
PriceLimitReached(execution) ==
    /\ execution.max_price # {}
    /\ price_limit # {}
    /\ \E p \in execution.max_price : \E l \in price_limit : p >= l

\* lines 271-292: the loop leaves after this execution
LeavesLoop(execution, unfilled) ==
    \/ unfilled = 0
    \/ execution.max_price = {}
    \/ PriceLimitReached(execution)

\* lines 225, 245-292: a successful execution
Filled(execution) ==
    IF Underflows(total_unfilled_1, execution.input)
    THEN /\ Panic("unable to subtract unfilled input from total input")
         /\ UNCHANGED <<results, dir, loop, consumed, produced, price_hit>>
    ELSE IF execution.output_asset # 3 - dir
    THEN /\ Panic("assertion failed: lambda_2.asset_id == asset_2")
         /\ UNCHANGED <<results, dir, loop, consumed, produced, price_hit>>
    ELSE LET unfilled == NewTotalUnfilled(execution)
             output == NewTotalOutput(execution)
             trs == NewTraces(execution)
             breaker == CountExecution(execution_circuit_breaker)
         IN /\ consumed' = [consumed EXCEPT ![dir] = @ + execution.input]
            /\ produced' = produced + execution.output
            /\ price_hit' = (price_hit \/ PriceLimitReached(execution))
            /\ total_unfilled_1' = unfilled
            /\ total_output_2' = output
            /\ traces' = trs
            /\ execution_circuit_breaker' = breaker
            /\ UNCHANGED <<input, culprit>>
            /\ IF LeavesLoop(execution, unfilled)
               THEN ReturnExecution(unfilled, output, trs)
               ELSE /\ pc' = "loop_top"
                    /\ UNCHANGED <<results, dir, failure>>

\* lines 219-243: fill_route and the three ways it can end
FillRoute ==
    /\ pc = "fill_route"
    /\ IF ~GetMut
       THEN /\ Panic("expected state to have no other refs")
            /\ UNCHANGED <<results, dir, loop, history>>
            /\ Met(NoResponse)
       ELSE /\ calls' = [calls EXCEPT !.fill_route = @ + 1]
            /\ passed' = {Delta1}
            /\ \/ \E execution \in Executions(dir, Delta1.amount) :
                    /\ execution.traces = <<>> => execution.max_price = {}
                    /\ Met([Resp("fill_route", "ok") EXCEPT !.execution = {execution}])
                    /\ Filled(execution)
                    /\ UNCHANGED <<closed, overflowed, overflows, fill_failures>>
               \/ \E position \in Positions :
                    /\ Met([Resp("fill_route", "overflow") EXCEPT !.position = {position}])
                    /\ culprit' = {position}
                    /\ overflowed' = overflowed \cup {position}
                    /\ overflows' = overflows + 1
                    /\ pc' = "close_position"
                    /\ UNCHANGED <<results, dir, failure, input, total_unfilled_1,
                                   total_output_2, traces, execution_circuit_breaker,
                                   consumed, produced, closed, price_hit, fill_failures>>
               \/ /\ Met(Resp("fill_route", "error"))
                  /\ fill_failures' = fill_failures + 1
                  /\ Bail("error filling route")
                  /\ UNCHANGED <<results, dir, loop, consumed, produced, closed,
                                 overflowed, overflows, price_hit>>
            /\ UNCHANGED search_failures
    /\ UNCHANGED <<args, other_refs, store, value_circuit_breaker>>

\* lines 226-236: close the position that overflowed and go round again
ClosePosition ==
    /\ pc = "close_position"
    /\ IF ~GetMut
       THEN /\ Panic("expected state to have no other refs")
            /\ UNCHANGED <<loop, history>>
            /\ Met(NoResponse)
       ELSE /\ calls' = [calls EXCEPT !.close_position = @ + 1]
            /\ \E ok \in BOOLEAN :
                 /\ Met(Resp("close_position_by_id", IF ok THEN "ok" ELSE "error"))
                 /\ IF ok
                    THEN /\ closed' = closed \cup culprit
                         /\ culprit' = {}
                         /\ pc' = "loop_top"
                         /\ UNCHANGED <<failure, input, total_unfilled_1, total_output_2,
                                        traces, execution_circuit_breaker>>
                    ELSE /\ Panic("the position still exists")
                         /\ UNCHANGED <<loop, closed>>
            /\ UNCHANGED <<consumed, passed, produced, price_hit, answers>>
    /\ UNCHANGED <<args, other_refs, store, value_circuit_breaker, results, dir>>

(***************************************************************************)
(* handle_batch_swaps                                                      *)
(***************************************************************************)
\* missing storage taken as a breaker that allows any outflow
SnapshotUnboundedWhenMissing(stored) ==
    IF stored = {}
    THEN [a \in Assets |-> MaxOut * MAX_EXECUTIONS]
    ELSE CHOOSE v \in stored : TRUE

\* lines 59-64: the stored breaker, or the default one when nothing is stored
Snapshot(stored) ==
    IF stored = {}
    THEN ValueCircuitBreakerDefault
    ELSE CHOOSE v \in stored : TRUE

\* the stored breaker read back with its two balances in either order
TakeSnapshotInAnyOrder ==
    \E order \in {<<1, 2>>, <<2, 1>>} :
        value_circuit_breaker' =
            [a \in Assets |-> Snapshot(nv_value_breaker)[order[a]]]

\* lines 55-64: the snapshot is what the storage holds
TakeSnapshot == value_circuit_breaker' = Snapshot(nv_value_breaker)

\* lines 47-64: the value circuit breaker snapshot, read before any routing
LoadValueBreaker ==
    /\ pc = "load_value_breaker"
    /\ \E readable \in BOOLEAN :
         /\ Met(Resp("nonverifiable_get_raw", IF readable THEN "ok" ELSE "error"))
         /\ IF ~readable
            THEN /\ Panic("able to retrieve value circuit breaker from nonverifiable storage")
                 /\ UNCHANGED value_circuit_breaker
            ELSE /\ TakeSnapshot
                 /\ pc' = "direction_1"
                 /\ UNCHANGED failure
    /\ UNCHANGED <<args, other_refs, store, results, dir, loop, history>>

\* a direction run even without input
HasInputAlways(delta) == delta >= 0

\* lines 66 and 82: a direction is run only when it has input
HasInput(delta) == delta > 0

\* lines 66-80: asset_1 -> asset_2, skipped when there is no input
Direction1 ==
    /\ pc = "direction_1"
    /\ IF HasInput(delta_1)
       THEN EnterRouteAndFill(1, delta_1)
       ELSE /\ pc' = "direction_2"
            /\ UNCHANGED <<dir, loop, history>>
    /\ UNCHANGED <<args, other_refs, store, value_circuit_breaker, results, failure>>
    /\ Met(NoResponse)

\* lines 82-96: asset_2 -> asset_1, skipped when there is no input
Direction2 ==
    /\ pc = "direction_2"
    /\ IF HasInput(delta_2)
       THEN EnterRouteAndFill(2, delta_2)
       ELSE /\ pc' = "assemble"
            /\ UNCHANGED <<dir, loop, history>>
    /\ UNCHANGED <<args, other_refs, store, value_circuit_breaker, results, failure>>
    /\ Met(NoResponse)

\* the unfilled part taken from the execution's output instead of its input
LambdaUnfilledFromOutput(swap_execution, delta) ==
    IF swap_execution = {}
    THEN [lambda |-> 0, unfilled |-> delta, underflow |-> FALSE]
    ELSE LET e == CHOOSE x \in swap_execution : TRUE
         IN  [lambda |-> e.output,
              unfilled |-> IF delta < e.output THEN 0 ELSE delta - e.output,
              underflow |-> delta < e.output]

\* lines 98-111: (lambda, unfilled) of one direction from its Option<SwapExecution>
LambdaUnfilled(swap_execution, delta) ==
    IF swap_execution = {}
    THEN [lambda |-> 0, unfilled |-> delta, underflow |-> FALSE]
    ELSE LET e == CHOOSE x \in swap_execution : TRUE
         IN  [lambda |-> e.output,
              unfilled |-> delta - e.input,
              underflow |-> Underflows(delta, e.input)]

\* the record with each direction's output under its own number and the two
\* heights exchanged
OutputDataStraight ==
    LET one == LambdaUnfilled(swap_execution_1_for_2, delta_1)
        two == LambdaUnfilled(swap_execution_2_for_1, delta_2)
    IN  [height |-> epoch_starting_height,
         epoch_starting_height |-> block_height,
         trading_pair |-> trading_pair,
         delta_1 |-> delta_1, delta_2 |-> delta_2,
         lambda_1 |-> one.lambda, lambda_2 |-> two.lambda,
         unfilled_1 |-> one.unfilled, unfilled_2 |-> two.unfilled]

\* lines 112-122
OutputData ==
    LET one == LambdaUnfilled(swap_execution_1_for_2, delta_1)
        two == LambdaUnfilled(swap_execution_2_for_1, delta_2)
    IN  [height |-> block_height,
         epoch_starting_height |-> epoch_starting_height,
         trading_pair |-> trading_pair,
         delta_1 |-> delta_1, delta_2 |-> delta_2,
         lambda_1 |-> two.lambda, lambda_2 |-> one.lambda,
         unfilled_1 |-> one.unfilled, unfilled_2 |-> two.unfilled]

\* the outflow of asset 1 checked with `<` one unit too late
Asset1OutflowCoveredOffByOne(data) ==
    data.lambda_1 <= Available(value_circuit_breaker, 1) + 1

\* the outflow of asset 2 not checked at all
Asset2OutflowUnchecked(data) == TRUE

\* lines 124-135: the two outflow assertions
Asset1OutflowCovered(data) == data.lambda_1 <= Available(value_circuit_breaker, 1)
Asset2OutflowCovered(data) == data.lambda_2 <= Available(value_circuit_breaker, 2)

\* lines 98-147: assemble the record, check it against the snapshot, commit
AssembleAndCommit ==
    /\ pc = "assemble"
    /\ LET data == OutputData
       IN  IF \/ LambdaUnfilled(swap_execution_1_for_2, delta_1).underflow
              \/ LambdaUnfilled(swap_execution_2_for_1, delta_2).underflow
           THEN /\ Panic("attempt to subtract with overflow")
                /\ UNCHANGED <<output_data, stored_executions, writes>>
           ELSE IF ~Asset1OutflowCovered(data)
           THEN /\ Panic("asset 1 outflow exceeds available balance")
                /\ UNCHANGED <<output_data, stored_executions, writes>>
           ELSE IF ~Asset2OutflowCovered(data)
           THEN /\ Panic("asset 2 outflow exceeds available balance")
                /\ UNCHANGED <<output_data, stored_executions, writes>>
           ELSE IF ~GetMut
           THEN /\ Panic("expected state to have no other refs")
                /\ UNCHANGED <<output_data, stored_executions, writes>>
           ELSE /\ output_data' = {data}
                /\ stored_executions' = <<swap_execution_1_for_2, swap_execution_2_for_1>>
                /\ writes' = writes + 1
                /\ pc' = "done"
                /\ UNCHANGED failure
    /\ UNCHANGED <<args, other_refs, nv_value_breaker, value_circuit_breaker, results,
                   dir, loop, history>>
    /\ Met(NoResponse)

(***************************************************************************)
(* The rest of the node                                                    *)
(***************************************************************************)
Running == pc \notin {"done", "error", "panic"}

\* another holder of the state drops its reference; while the caller holds
\* `&mut Arc<Self>` nobody else can make a new one
DropOtherRef ==
    /\ Running
    /\ other_refs
    /\ other_refs' = FALSE
    /\ UNCHANGED <<args, store, pc, value_circuit_breaker, results, dir, loop,
                   failure, history>>
    /\ Met(Resp("drop", ""))

Next ==
    \/ LoadValueBreaker
    \/ Direction1
    \/ Direction2
    \/ CheckBreaker
    \/ PathSearch
    \/ FillRoute
    \/ ClosePosition
    \/ AssembleAndCommit
    \/ DropOtherRef

Spec == Init /\ [][Next]_vars

\* the call is driven to its end: every await of the call is polled again
FairSpec == Spec /\ WF_vars(Next)

(***************************************************************************)
(* The call run against itself: every step is taken, the call is put back  *)
(* where the step started, and the step is taken again with the same       *)
(* answer of the environment.                                              *)
(***************************************************************************)
\* the batches compared: direction 1 without input or with the largest,
\* direction 2 without input or with one unit, and the storage without a
\* breaker or with one unit of asset 1 only
DetInit ==
    /\ InitProgram
    /\ delta_1 \in {0, MaxDelta}
    /\ delta_2 \in {0, 1}
    /\ nv_value_breaker \in {{}, {[a \in Assets |-> 2 - a]}}
    /\ phase = "start"
    /\ response = NoResponse
    /\ saved = {}
    /\ first = {}

\* back to the state the last step started from, keeping where it led
TakeAgain ==
    /\ phase = "first"
    /\ phase' = "again"
    /\ first' = {State}
    /\ UNCHANGED <<response, saved>>
    /\ \E s \in saved :
         /\ delta_1' = s.delta_1 /\ delta_2' = s.delta_2
         /\ price_limit' = s.price_limit
         /\ other_refs' = s.other_refs
         /\ nv_value_breaker' = s.nv_value_breaker
         /\ output_data' = s.output_data
         /\ stored_executions' = s.stored_executions
         /\ writes' = s.writes
         /\ pc' = s.pc
         /\ value_circuit_breaker' = s.value_circuit_breaker
         /\ swap_execution_1_for_2' = s.swap_execution_1_for_2
         /\ swap_execution_2_for_1' = s.swap_execution_2_for_1
         /\ dir' = s.dir
         /\ input' = s.input
         /\ total_unfilled_1' = s.total_unfilled_1
         /\ total_output_2' = s.total_output_2
         /\ traces' = s.traces
         /\ execution_circuit_breaker' = s.execution_circuit_breaker
         /\ culprit' = s.culprit
         /\ failure' = s.failure
         /\ consumed' = s.consumed
         /\ calls' = s.calls
         /\ passed' = s.passed
         /\ produced' = s.produced
         /\ closed' = s.closed
         /\ overflowed' = s.overflowed
         /\ overflows' = s.overflows
         /\ price_hit' = s.price_hit
         /\ fill_failures' = s.fill_failures
         /\ search_failures' = s.search_failures

DetNext ==
    \/ Next
    \/ TakeAgain

DetSpec == DetInit /\ [][DetNext]_vars

(***************************************************************************)
(* Vocabulary of the properties                                            *)
(***************************************************************************)
LoopPcs == {"loop_top", "path_search", "fill_route", "close_position"}

\* a route_and_fill call is running
InCall == pc \in LoopPcs

\* handle_batch_swaps returned Ok(()): the record is committed
Committed == pc = "done"

\* route_and_fill for direction d handed its SwapExecution to handle_batch_swaps
Returned(d) ==
    IF d = 1 THEN swap_execution_1_for_2 # {} ELSE d = 2 /\ swap_execution_2_for_1 # {}

\* both directions are over: each was skipped or has returned
DirectionsFinished ==
    /\ pc \notin {"load_value_breaker", "direction_1", "direction_2"} \cup LoopPcs
    /\ HasInput(delta_1) => Returned(1)
    /\ HasInput(delta_2) => Returned(2)

\* input of an Option<SwapExecution>, 0 for None
ExecutionInput(swap_execution) ==
    IF swap_execution = {} THEN 0 ELSE (CHOOSE e \in swap_execution : TRUE).input

TypeOK ==
    /\ delta_1 \in 0..MaxDelta /\ delta_2 \in 0..MaxDelta
    /\ price_limit \in PriceLimits
    /\ other_refs \in BOOLEAN
    /\ pc \in {"load_value_breaker", "direction_1", "direction_2", "assemble",
               "done", "error", "panic"} \cup LoopPcs
    /\ dir \in 0..2
    /\ total_unfilled_1 \in Nat /\ total_output_2 \in Nat /\ input \in Nat
    /\ writes \in Nat

(***************************************************************************)
(* C1  Conservation of input.  In every committed record, for each         *)
(* direction i, unfilled_i plus the input consumed by the successful fills *)
(* of that direction equals delta_i.                                       *)
(* The code breaks this when delta_i > MAX_RESERVE_AMOUNT: line 249        *)
(* subtracts the consumed input from the whole total_unfilled_1, line 264  *)
(* adds that remainder to total_unfilled_1 - delta_1.amount.               *)
(***************************************************************************)
C1_InputConserved ==
    \A data \in output_data :
        /\ data.unfilled_1 + consumed[1] = delta_1
        /\ data.unfilled_2 + consumed[2] = delta_2

(***************************************************************************)
(* C2  As stated: in every committed record lambda_2 + unfilled_1 =        *)
(* delta_1 and lambda_1 + unfilled_2 = delta_2.                            *)
(***************************************************************************)
C2_LambdaPlusUnfilled ==
    \A data \in output_data :
        /\ data.lambda_2 + data.unfilled_1 = data.delta_1
        /\ data.lambda_1 + data.unfilled_2 = data.delta_2

(***************************************************************************)
(* C2  As amended: in every committed record unfilled_i plus the input of  *)
(* the SwapExecution committed for direction i (0 when the direction was   *)
(* skipped) equals delta_i; lambda is that execution's output, an amount   *)
(* of the other asset, and is no part of the balance.                      *)
(***************************************************************************)
C2_ExecutionInputPlusUnfilled ==
    \A data \in output_data :
        /\ ExecutionInput(stored_executions[1]) + data.unfilled_1 = delta_1
        /\ ExecutionInput(stored_executions[2]) + data.unfilled_2 = delta_2
        /\ data.delta_1 = delta_1 /\ data.delta_2 = delta_2

\* a committed record of a partial fill whose output differs from its input
C2_Witness ==
    /\ Committed
    /\ \E data \in output_data :
         /\ ExecutionInput(stored_executions[1]) = 1
         /\ data.unfilled_1 = 1
         /\ data.lambda_2 = 0
         /\ ExecutionInput(stored_executions[2]) = 2
         /\ data.lambda_1 = 1

(***************************************************************************)
(* C3  Every call terminates, whatever the Router and the Fill Executor    *)
(* answer.  Measure is a natural number that every step of the call makes  *)
(* smaller: the phase of handle_batch_swaps first, then the path searches  *)
(* the breaker still allows and the place in the iteration, then the       *)
(* foreign reference not yet dropped.  A call that has not ended can       *)
(* always take a step.  So every call ends after finitely many steps, and  *)
(* an iteration that makes no progress is stopped by the breaker.          *)
(***************************************************************************)
PhaseRank ==
    CASE pc = "load_value_breaker" -> 6
      [] pc = "direction_1" -> 5
      [] InCall /\ dir = 1 -> 4
      [] pc = "direction_2" -> 3
      [] InCall /\ dir = 2 -> 2
      [] pc = "assemble" -> 1
      [] OTHER -> 0

IterationRank ==
    CASE pc = "loop_top" -> 1
      [] pc = "path_search" -> 0
      [] pc = "fill_route" -> 3
      [] pc = "close_position" -> 2
      [] OTHER -> 0

LoopRank ==
    IF InCall
    THEN 4 * (MAX_PATH_SEARCHES - execution_circuit_breaker.current_path_searches)
           + IterationRank
    ELSE 0

Measure ==
    2 * (PhaseRank * (4 * MAX_PATH_SEARCHES + 4) + LoopRank)
      + (IF other_refs THEN 1 ELSE 0)

C3_Terminates ==
    /\ [][Measure' < Measure]_vars
    /\ [](Measure \in Nat)
    /\ [](Running => ENABLED Next)
    /\ [](InCall => calls.fill_route <= MAX_PATH_SEARCHES)

\* a Router that always finds a path and a Fill Executor that always succeeds
\* with nothing consumed: the call returned once the breaker's limit was reached
C3_Witness ==
    /\ Returned(1)
    /\ ~InCall /\ dir = 1
    /\ calls.path_search = MAX_PATH_SEARCHES
    /\ calls.fill_route = MAX_PATH_SEARCHES
    /\ execution_circuit_breaker.current_path_searches = MAX_PATH_SEARCHES
    /\ consumed[1] = 0
    /\ overflows = 0
    /\ total_unfilled_1 = delta_1

(***************************************************************************)
(* C4  A record is committed only if lambda_1 <= available(asset_1) and    *)
(* lambda_2 <= available(asset_2) in the snapshot; the committed lambdas   *)
(* are the executions' outputs, not clamped; and when either outflow       *)
(* exceeds what is available, the call has panicked with the assertion's   *)
(* message and nothing is committed.                                       *)
(***************************************************************************)
OutflowMessages ==
    {"asset 1 outflow exceeds available balance",
     "asset 2 outflow exceeds available balance"}

C4_ValueBreakerEnforced ==
    /\ \A data \in output_data :
         /\ data = OutputData
         /\ data.lambda_1 <= Available(value_circuit_breaker, 1)
         /\ data.lambda_2 <= Available(value_circuit_breaker, 2)
    /\ Committed => output_data # {}
    /\ ( /\ DirectionsFinished
         /\ pc # "assemble"
         /\ \/ OutputData.lambda_1 > Available(value_circuit_breaker, 1)
            \/ OutputData.lambda_2 > Available(value_circuit_breaker, 2) )
       => /\ pc = "panic"
          /\ failure \in OutflowMessages
          /\ output_data = {}
          /\ stored_executions = <<{}, {}>>

\* available(asset_1) = 1 and the batch produced lambda_1 = 2: panic, no record
C4_Witness ==
    /\ pc = "panic"
    /\ failure = "asset 1 outflow exceeds available balance"
    /\ Available(value_circuit_breaker, 1) = 1
    /\ OutputData.lambda_1 = 2
    /\ OutputData.lambda_2 <= Available(value_circuit_breaker, 2)
    /\ output_data = {}

(***************************************************************************)
(* C5  set_output_data is called at most once per call, as the last step:  *)
(* only from the assembling step, after both directions are over and both  *)
(* outflow checks passed, and the call is over right after it.  A call     *)
(* that returned an error or panicked has written no output record and no  *)
(* SwapExecution.                                                          *)
(***************************************************************************)
C5_CommitOnceAndLast ==
    /\ [][writes' # writes =>
            /\ pc = "assemble" /\ pc' = "done"
            /\ writes = 0 /\ writes' = 1
            /\ output_data = {} /\ output_data' # {}]_vars
    /\ [](writes <= 1)
    /\ [](output_data # {} \/ stored_executions # <<{}, {}>> =>
            /\ Committed /\ writes = 1
            /\ DirectionsFinished
            /\ OutputData.lambda_1 <= Available(value_circuit_breaker, 1)
            /\ OutputData.lambda_2 <= Available(value_circuit_breaker, 2)
            /\ stored_executions = <<swap_execution_1_for_2, swap_execution_2_for_1>>)
    /\ [](pc \in {"error", "panic"} =>
            /\ writes = 0
            /\ output_data = {}
            /\ stored_executions = <<{}, {}>>)
    /\ [](Committed => writes = 1 /\ ~ENABLED Next)

\* a record committed together with the executions of both directions
C5_Witness ==
    /\ Committed
    /\ writes = 1
    /\ output_data # {}
    /\ stored_executions[1] # {}
    /\ stored_executions[2] # {}

\* the call failed in direction 2 after direction 1 had returned an execution
C5_WitnessFailed ==
    /\ pc = "error"
    /\ dir = 2
    /\ swap_execution_1_for_2 # {}
    /\ output_data = {}

\* the last route_and_fill call is over
CallEnded == dir # 0 /\ ~InCall

\* panics that a collaborator breaking its contract brings about: the state
\* shared with another holder, a position that cannot be closed, an execution
\* that reports more input than there is or an output in the wrong asset
ContractBreaches ==
    {"expected state to have no other refs",
     "the position still exists",
     "unable to subtract unfilled input from total input",
     "assertion failed: lambda_2.asset_id == asset_2",
     "able to retrieve value circuit breaker from nonverifiable storage"}

(***************************************************************************)
(* C6  Overflow recovery.  In a route_and_fill call in which the Fill      *)
(* Executor answered ExecutionOverflow(P) once and succeeded on every      *)
(* other call (the Router never failing, the collaborators keeping their   *)
(* contracts): close_position_by_id was called once, P is the only         *)
(* position closed, and the call returned a SwapExecution.                 *)
(* The code breaks this when the input exceeds MAX_RESERVE_AMOUNT: the     *)
(* fills after the retry leave total_unfilled_1 above the input (C1) and   *)
(* line 299 underflows.                                                    *)
(***************************************************************************)
C6_OverflowRecovered ==
    ( /\ CallEnded
      /\ overflows = 1
      /\ fill_failures = 0
      /\ search_failures = 0
      /\ failure \notin ContractBreaches )
    => /\ calls.close_position = 1
       /\ closed = overflowed
       /\ Returned(dir)

\* what the code does keep of C6: the overflow is answered by closing the
\* named position, once, and by going back to the top of the loop
C6_ClosedOnceAndRetried ==
    /\ [][pc = "close_position" /\ pc' # "panic" =>
            /\ pc' = "loop_top"
            /\ closed' = closed \cup culprit
            /\ calls'.close_position = calls.close_position + 1
            /\ UNCHANGED <<total_unfilled_1, total_output_2, traces>>]_vars
    /\ [](overflows = 1 /\ pc \notin {"close_position", "panic"} =>
            calls.close_position = 1 /\ closed = overflowed)

(***************************************************************************)
(* C7  Price limit.  Once a successful execution's maximum price is at or  *)
(* above the configured limit, the call makes no further path search or    *)
(* fill and has returned its partial SwapExecution.                        *)
(* The code breaks the last part when the input exceeds                    *)
(* MAX_RESERVE_AMOUNT: total_unfilled_1 can exceed the input (C1), and     *)
(* the subtraction of line 299 then underflows instead of returning.       *)
(***************************************************************************)
C7_PriceLimitStops ==
    price_hit => /\ ~InCall
                 /\ Returned(dir)

\* what the code does keep of C7: the loop is left in the same step, without
\* an error; the call has returned unless line 299 underflowed
C7_PriceLimitLeavesLoop ==
    price_hit =>
        /\ ~InCall
        /\ pc # "error"
        /\ \/ Returned(dir)
           \/ /\ pc = "panic"
              /\ failure = "attempt to subtract with overflow"
              /\ total_unfilled_1 > input
              /\ input > MAX_RESERVE_AMOUNT

(***************************************************************************)
(* C8  Skip on zero.  With delta_1 = 0 no route_and_fill call is made for  *)
(* asset_1 -> asset_2 (so no path search and no fill), and a committed     *)
(* record has lambda_2 = 0 and unfilled_1 = 0; the same for delta_2 = 0    *)
(* with lambda_1 and unfilled_2.                                           *)
(***************************************************************************)
C8_SkipOnZero ==
    /\ delta_1 = 0 =>
         /\ dir # 1
         /\ swap_execution_1_for_2 = {}
         /\ consumed[1] = 0
         /\ \A data \in output_data : data.lambda_2 = 0 /\ data.unfilled_1 = 0
    /\ delta_2 = 0 =>
         /\ dir # 2
         /\ swap_execution_2_for_1 = {}
         /\ consumed[2] = 0
         /\ \A data \in output_data : data.lambda_1 = 0 /\ data.unfilled_2 = 0

\* a record committed for a batch that has input of asset 2 only
C8_Witness ==
    /\ Committed
    /\ delta_1 = 0 /\ delta_2 > 0
    /\ calls.fill_route > 0
    /\ \E data \in output_data :
         /\ data.lambda_2 = 0 /\ data.unfilled_1 = 0
         /\ data.lambda_1 > 0

C9_WitnessReturned ==
    /\ CallEnded /\ Returned(1) /\ dir = 1
    /\ overflows = 1
    /\ calls.fill_route = 1
    /\ ExecutionInput(swap_execution_1_for_2) = 0

(***************************************************************************)
(* C10  A Fill Executor failure other than ExecutionOverflow ends the      *)
(* directional call in that very step: the error is returned, no position  *)
(* is closed and no path search or fill follows.  handle_batch_swaps       *)
(* returns the error: it takes no further step, commits nothing, and when  *)
(* the failure came in asset_1 -> asset_2 the other direction is never     *)
(* run.                                                                    *)
(***************************************************************************)
C10_FillFailureAborts ==
    /\ [][fill_failures' # fill_failures =>
            /\ pc = "fill_route" /\ pc' = "error"
            /\ fill_failures' = 1
            /\ closed' = closed
            /\ calls'.close_position = calls.close_position
            /\ calls'.path_search = calls.path_search
            /\ calls'.fill_route = calls.fill_route + 1
            /\ UNCHANGED <<results, store, dir>>]_vars
    /\ [](fill_failures > 0 =>
            /\ pc = "error"
            /\ failure = "error filling route"
            /\ ~ENABLED Next
            /\ ~Returned(dir)
            /\ output_data = {} /\ stored_executions = <<{}, {}>> /\ writes = 0
            /\ dir = 1 => swap_execution_2_for_1 = {} /\ consumed[2] = 0)

\* the failure came in direction 1, after a successful fill, with input
\* waiting in direction 2
C10_Witness ==
    /\ pc = "error"
    /\ fill_failures = 1
    /\ dir = 1
    /\ delta_2 > 0
    /\ calls.fill_route = 2
    /\ consumed[1] > 0

(***************************************************************************)
(* C11  Each directional route_and_fill call starts with a breaker whose   *)
(* two counters are zero.  Throughout a call the path-search counter is    *)
(* the number of that call's own searches that found a path and the        *)
(* execution counter the number of that call's own successful fills: what  *)
(* asset_1 -> asset_2 used takes nothing from asset_2 -> asset_1.          *)
(***************************************************************************)
\* the successful fills of the current or last call
SuccessfulFills == calls.fill_route - overflows - fill_failures

C11_FreshBreakerPerDirection ==
    /\ InCall =>
         /\ execution_circuit_breaker.current_path_searches = calls.path_search
         /\ execution_circuit_breaker.current_executions = SuccessfulFills
    /\ InCall /\ calls = NoCalls =>
         execution_circuit_breaker = [current_path_searches |-> 0,
                                      current_executions |-> 0]

\* direction 1 used its whole execution budget, and direction 2 still made
\* as many searches and fills as the limits allow
C11_Witness ==
    /\ dir = 2 /\ CallEnded /\ Returned(2)
    /\ \E e \in swap_execution_1_for_2 : Len(e.traces) = MAX_EXECUTIONS
    /\ calls.path_search = MAX_PATH_SEARCHES
    /\ SuccessfulFills = MAX_EXECUTIONS

(***************************************************************************)
(* C12  With no value circuit breaker in the non-verifiable storage the    *)
(* snapshot is the empty breaker: zero available for every asset.  Then a  *)
(* committed record has lambda_1 = lambda_2 = 0, and a batch whose         *)
(* directions are over with lambda_1 > 0 or lambda_2 > 0 has halted on an  *)
(* outflow assertion with nothing committed.                               *)
(***************************************************************************)
\* the snapshot has been taken
SnapshotTaken ==
    /\ pc # "load_value_breaker"
    /\ failure # "able to retrieve value circuit breaker from nonverifiable storage"

C12_MissingBreakerIsEmpty ==
    nv_value_breaker = {} /\ SnapshotTaken =>
        /\ \A a \in Assets : Available(value_circuit_breaker, a) = 0
        /\ \A data \in output_data : data.lambda_1 = 0 /\ data.lambda_2 = 0
        /\ Committed => OutputData.lambda_1 = 0 /\ OutputData.lambda_2 = 0
        /\ ( /\ DirectionsFinished
             /\ pc # "assemble"
             /\ OutputData.lambda_1 > 0 \/ OutputData.lambda_2 > 0 )
           => /\ pc = "panic"
              /\ failure \in OutflowMessages
              /\ output_data = {}
              /\ writes = 0

\* nothing stored and direction 1 produced output: the call halted
C12_Witness ==
    /\ nv_value_breaker = {}
    /\ pc = "panic"
    /\ failure = "asset 2 outflow exceeds available balance"
    /\ OutputData.lambda_2 > 0
    /\ OutputData.lambda_1 = 0
    /\ output_data = {}

\* nothing stored and fills that consumed input without output: committed
C12_WitnessCommitted ==
    /\ nv_value_breaker = {}
    /\ Committed
    /\ consumed[1] > 0 /\ consumed[2] > 0
    /\ \E data \in output_data : data.lambda_1 = 0 /\ data.lambda_2 = 0

\* this step is a fill_route call that succeeded and was accounted for
FillSucceeds ==
    /\ pc = "fill_route"
    /\ execution_circuit_breaker'.current_executions =
          execution_circuit_breaker.current_executions + 1

\* the input the execution of this step reported as consumed
ConsumedNow == consumed'[dir] - consumed[dir]

(***************************************************************************)
(* C14  After each successful fill the new total_unfilled is the old one   *)
(* minus the iteration's input plus the iteration's own unfilled part      *)
(* (iteration input minus consumed input): total_unfilled goes down by     *)
(* exactly the consumed input, capped iteration input or not.              *)
(* The code breaks this when total_unfilled_1 > MAX_RESERVE_AMOUNT: the    *)
(* "unfilled" of line 249 is total_unfilled_1 minus the consumed input,    *)
(* not the iteration input minus the consumed input (the bug of C1).       *)
(***************************************************************************)
C14_UnfilledDownByConsumed ==
    [][FillSucceeds =>
         /\ total_unfilled_1' =
               total_unfilled_1 - IterationInput(total_unfilled_1)
                 + (IterationInput(total_unfilled_1) - ConsumedNow)
         /\ total_unfilled_1' = total_unfilled_1 - ConsumedNow]_vars

\* what the code does keep of C14: the update is exact while the iteration
\* input is not capped, and too large by the cut-off part when it is
C14_ExactWhenUncapped ==
    [][FillSucceeds =>
         total_unfilled_1' =
            total_unfilled_1 - ConsumedNow
              + (total_unfilled_1 - IterationInput(total_unfilled_1))]_vars

\* this step is a pass through the loop body that filled successfully and goes
\* on to a next iteration which the breaker still allows
PassContinues ==
    /\ FillSucceeds
    /\ pc' = "loop_top"
    /\ ~ExceededLimits(execution_circuit_breaker')

(***************************************************************************)
(* C15  No pass through the loop body fills successfully, leaves           *)
(* total_unfilled unchanged or larger, and continues to a next iteration   *)
(* that the breaker allows.  The Fill Executor is taken at its word: an    *)
(* execution with a maximum price has traded, so it consumed input.        *)
(* The code breaks this when total_unfilled_1 > MAX_RESERVE_AMOUNT: the    *)
(* update of lines 249 and 264 (C1, C14) gives back what the fill consumed *)
(* and more.                                                               *)
(***************************************************************************)
C15_EveryPassProgresses ==
    [][PassContinues /\ ConsumedNow > 0 =>
         total_unfilled_1' < total_unfilled_1]_vars

\* what the code does keep of C15: a pass whose iteration input was not
\* capped goes down by what it consumed, and a pass that continues had a
\* maximum price below the limit and input left
C15_ProgressWhenUncapped ==
    [][PassContinues =>
         /\ total_unfilled_1 <= MAX_RESERVE_AMOUNT =>
               total_unfilled_1' = total_unfilled_1 - ConsumedNow
         /\ total_unfilled_1' > 0
         /\ ~price_hit'
         /\ Len(traces') > Len(traces)]_vars

(***************************************************************************)
(* C16  Within one route_and_fill call the iterations that found a path    *)
(* (counted by the breaker), the fill_route calls and the                  *)
(* close_position_by_id calls never exceed the path-search limit, and the  *)
(* successful fills never exceed the execution limit: a Fill Executor that *)
(* answers ExecutionOverflow every time is retried at most                 *)
(* MAX_PATH_SEARCHES times.                                                *)
(***************************************************************************)
C16_RetriesBounded ==
    /\ execution_circuit_breaker.current_path_searches <= MAX_PATH_SEARCHES
    /\ execution_circuit_breaker.current_executions <= MAX_EXECUTIONS
    /\ calls.fill_route <= MAX_PATH_SEARCHES
    /\ calls.fill_route <= execution_circuit_breaker.current_path_searches
    /\ calls.close_position <= overflows
    /\ overflows <= calls.fill_route
    /\ SuccessfulFills <= MAX_EXECUTIONS
    /\ overflows = MAX_PATH_SEARCHES /\ pc = "loop_top" =>
          ExceededLimits(execution_circuit_breaker)

\* overflow on every fill: the call returned a zero execution after
\* MAX_PATH_SEARCHES attempts, each followed by closing the position named
C16_Witness ==
    /\ CallEnded /\ Returned(dir)
    /\ overflows = MAX_PATH_SEARCHES
    /\ calls.fill_route = MAX_PATH_SEARCHES
    /\ calls.close_position = MAX_PATH_SEARCHES
    /\ calls.path_search = MAX_PATH_SEARCHES
    /\ SuccessfulFills = 0

(***************************************************************************)
(* C17  The Value handed to every fill_route call is                       *)
(* min(total_unfilled, MAX_RESERVE_AMOUNT) of that moment, in the input    *)
(* asset of the call: never above MAX_RESERVE_AMOUNT and never above what  *)
(* is still unfilled.                                                      *)
(***************************************************************************)
C17_FillInputCapped ==
    [][calls'.fill_route # calls.fill_route /\ pc = "fill_route" =>
         \E delta \in passed' :
            /\ passed' = {delta}
            /\ delta.amount = Min(total_unfilled_1, MAX_RESERVE_AMOUNT)
            /\ delta.amount <= MAX_RESERVE_AMOUNT
            /\ delta.amount <= total_unfilled_1
            /\ delta.asset_id = dir]_vars

\* a fill of direction 2 was handed MAX_RESERVE_AMOUNT with more than that
\* unfilled; it overflowed, so the total is still what it was
C17_Witness ==
    /\ pc = "close_position"
    /\ dir = 2
    /\ total_unfilled_1 > MAX_RESERVE_AMOUNT
    /\ passed = {[amount |-> MAX_RESERVE_AMOUNT, asset_id |-> 2]}

\* the Option<SwapExecution> that the call of direction d hands back
ExecutionOf(d) == IF d = 1 THEN swap_execution_1_for_2 ELSE swap_execution_2_for_1

\* the loop leaves by its `break`: either the SwapExecution of lines 295-305
\* is returned, or the subtraction of line 299 underflows, which takes
\* total_unfilled_1 above the input and so an input above MAX_RESERVE_AMOUNT
BreaksOut ==
    /\ calls'.fill_route = calls.fill_route
    /\ calls'.close_position = calls.close_position
    /\ UNCHANGED <<loop, dir>>
    /\ \/ /\ pc' = (IF dir = 1 THEN "direction_2" ELSE "assemble")
          /\ ExecutionOf(dir)' = {[traces |-> traces,
                                   input |-> input - total_unfilled_1,
                                   output |-> total_output_2]}
       \/ /\ pc' = "panic"
          /\ failure' = "attempt to subtract with overflow"
          /\ ExecutionOf(dir)' = {}
          /\ total_unfilled_1 > input
          /\ input > MAX_RESERVE_AMOUNT

\* this step is the call's own step from the top of the loop (line 188)
ChecksBreaker == pc = "loop_top" /\ pc' # "loop_top"

\* the call returns the execution accumulated so far: the traces, the input
\* consumed and the output produced by its successful fills
ReturnsAccumulated ==
    /\ pc' = (IF dir = 1 THEN "direction_2" ELSE "assemble")
    /\ ExecutionOf(dir)' = {[traces |-> traces,
                             input |-> consumed[dir],
                             output |-> produced]}

(***************************************************************************)
(* C18  The breaker is checked first in each iteration: when a counter has *)
(* reached its limit there, the call makes no further path search, fill or *)
(* close-position call and returns the execution accumulated so far.       *)
(* The code breaks the last part when the input exceeds                    *)
(* MAX_RESERVE_AMOUNT: total_unfilled_1 is then too large (C1), so the     *)
(* input of the returned execution is not what the fills consumed, or the  *)
(* subtraction of line 299 underflows and nothing is returned.             *)
(***************************************************************************)
C18_BreakerStopsAndReturns ==
    [][ChecksBreaker /\ ExceededLimits(execution_circuit_breaker) =>
         /\ calls' = calls
         /\ ReturnsAccumulated]_vars

\* what the code does keep of C18: an iteration begins with the breaker
\* check; with a counter at its limit no call follows and the loop is left
\* at once; otherwise the iteration goes on to the path search
C18_BreakerLeavesLoop ==
    [][ChecksBreaker =>
         IF ExceededLimits(execution_circuit_breaker)
         THEN calls' = calls /\ BreaksOut
         ELSE pc' = "path_search" /\ calls' = calls /\ UNCHANGED loop]_vars

\* this step is a path search that the Router answered with no path or with
\* an empty path
NoRouteFound ==
    /\ pc = "path_search"
    /\ calls'.path_search = calls.path_search + 1
    /\ pc' \notin {"fill_route", "error"}

(***************************************************************************)
(* C19  When the Router answers no path or an empty path the call ends in  *)
(* that step with the execution accumulated so far: the path-search        *)
(* counter is not incremented, the Fill Executor is not called, the totals *)
(* and the traces are unchanged.                                           *)
(* The code breaks the first part when the input exceeds                   *)
(* MAX_RESERVE_AMOUNT: after a fill total_unfilled_1 is too large (C1), so *)
(* the input of the returned execution is not what the fills consumed, or  *)
(* the subtraction of line 299 underflows and nothing is returned.         *)
(***************************************************************************)
C19_NoRouteReturns ==
    [][NoRouteFound =>
         /\ UNCHANGED <<total_unfilled_1, total_output_2, traces,
                        execution_circuit_breaker>>
         /\ calls'.fill_route = calls.fill_route
         /\ ReturnsAccumulated]_vars

\* what the code does keep of C19: the loop is left in that step, with the
\* breaker, the totals and the traces as they were and no fill or
\* close-position call
C19_NoRouteLeavesLoop ==
    [][NoRouteFound => BreaksOut]_vars

(***************************************************************************)
(* C20  An overflow-triggered retry changes nothing in the accounting but  *)
(* the path-search counter.  The iteration counted its path search when    *)
(* the path was found; the fill that fails with ExecutionOverflow and the  *)
(* closing of the position leave total_unfilled, total_output, the traces  *)
(* and the whole breaker as they were, so at the top of the next iteration *)
(* only the path-search counter differs, by one.                           *)
(***************************************************************************)
C20_RetryKeepsAccounting ==
    /\ [][pc = "path_search" /\ pc' = "fill_route" =>
            /\ execution_circuit_breaker' =
                  [execution_circuit_breaker EXCEPT !.current_path_searches = @ + 1]
            /\ UNCHANGED <<input, total_unfilled_1, total_output_2, traces>>]_vars
    /\ [][\/ pc = "fill_route" /\ pc' = "close_position"
          \/ pc = "close_position" /\ pc' = "loop_top"
          => UNCHANGED <<input, total_unfilled_1, total_output_2, traces,
                         execution_circuit_breaker>>]_vars
    /\ [][overflows' > overflows =>
            pc = "fill_route" /\ pc' = "close_position"]_vars
    /\ [](pc = "close_position" => overflows = calls.close_position + 1)

\* back at the top of the loop after a fill that succeeded and one that
\* overflowed: one execution counted, two path searches, the totals of the
\* first fill
C20_Witness ==
    /\ pc = "loop_top"
    /\ overflows = 1 /\ calls.close_position = 1
    /\ calls.fill_route = 2
    /\ execution_circuit_breaker = [current_path_searches |-> 2, current_executions |-> 1]
    /\ Len(traces) = 1
    /\ total_output_2 = 1
    /\ total_unfilled_1 = 1 /\ input = 2

C13_WitnessError ==
    /\ phase = "second"
    /\ pc = "error"
    /\ first = {State}
    /\ calls.fill_route > 0

IsPrefix(s, t) == Len(s) <= Len(t) /\ SubSeq(t, 1, Len(s)) = s

(***************************************************************************)
(* C21  Within one route_and_fill call the trace list only grows: every    *)
(* step leaves the earlier list as a prefix; a successful fill appends its *)
(* own traces (named by direction and fill_route call number) and every    *)
(* other step, a failed attempt included, leaves the list as it is; the    *)
(* traces are in the order of the fills, and the returned execution        *)
(* carries exactly the accumulated list.                                   *)
(***************************************************************************)
C21_TracesOnlyGrow ==
    /\ [][InCall => IsPrefix(traces, traces')]_vars
    /\ [][InCall /\ ~FillSucceeds => traces' = traces]_vars
    /\ [][FillSucceeds =>
            \A i \in (Len(traces) + 1)..Len(traces') :
                traces'[i] = <<dir, calls'.fill_route>>]_vars
    /\ [](\A i \in 1..Len(traces) :
            /\ traces[i][1] = dir
            /\ traces[i][2] \in 1..calls.fill_route
            /\ \A j \in 1..Len(traces) : i < j => traces[i][2] < traces[j][2])
    /\ [](Len(traces) <= SuccessfulFills)
    /\ [](CallEnded /\ Returned(dir) =>
            \A e \in ExecutionOf(dir) : e.traces = traces)

\* the traces of two successful fills returned in the order of the fills
C21_Witness ==
    /\ CallEnded /\ Returned(1) /\ dir = 1
    /\ \E e \in swap_execution_1_for_2 : e.traces = << <<1, 1>>, <<1, 2>> >>

\* an attempt that overflowed left no trace: only the second fill's is returned
C21_WitnessRetry ==
    /\ CallEnded /\ Returned(1) /\ dir = 1
    /\ overflows = 1
    /\ \E e \in swap_execution_1_for_2 : e.traces = << <<1, 2>> >>

\* this step is a successful fill whose execution has no traces, and so no
\* maximum price (line 277), with input left unfilled after it
NothingTraded ==
    /\ FillSucceeds
    /\ traces' = traces
    /\ total_unfilled_1' > 0

\* the call has handed back a SwapExecution in this step
ReturnsOk ==
    /\ pc' = (IF dir = 1 THEN "direction_2" ELSE "assemble")
    /\ failure' = ""
    /\ ExecutionOf(dir)' # {}

(***************************************************************************)
(* C22  When a successful execution has no usable maximum price and input  *)
(* remains unfilled, the call ends after that iteration: no further path   *)
(* search or fill, and the result is returned as a success.                *)
(* The code breaks the last part when the input exceeds                    *)
(* MAX_RESERVE_AMOUNT: the fill that consumed nothing leaves               *)
(* total_unfilled_1 above the input (C1), and the subtraction of line 299  *)
(* underflows instead of returning.                                        *)
(***************************************************************************)
C22_NoProgressReturns ==
    [][NothingTraded => ReturnsOk]_vars

\* what the code does keep of C22: the loop is left in that very step,
\* without an error; the call has returned unless line 299 underflowed
C22_NoProgressLeavesLoop ==
    [][NothingTraded =>
         /\ pc' \notin LoopPcs \cup {"error"}
         /\ \/ /\ ReturnsOk
               /\ ExecutionOf(dir)' = {[traces |-> traces',
                                        input |-> input - total_unfilled_1',
                                        output |-> total_output_2']}
            \/ /\ pc' = "panic"
               /\ failure' = "attempt to subtract with overflow"
               /\ total_unfilled_1' > input
               /\ input > MAX_RESERVE_AMOUNT]_vars

(***************************************************************************)
(* C23  Every subtraction of amounts is checked: a fill whose execution    *)
(* reports more consumed input than the iteration was given, or that takes *)
(* the consumed total above the original input, halts the call and is      *)
(* never accounted.                                                        *)
(* The code breaks this when total_unfilled_1 > MAX_RESERVE_AMOUNT: line   *)
(* 249 checks the consumed input against the whole total_unfilled_1, not   *)
(* against delta_1.amount, the input of the iteration.                     *)
(***************************************************************************)
C23_OverconsumptionHalts ==
    [][FillSucceeds =>
         /\ ConsumedNow <= IterationInput(total_unfilled_1)
         /\ consumed'[dir] <= input]_vars

\* what the code does keep of C23: no amount wraps.  An execution is accounted
\* only when its consumed input is within total_unfilled_1, lines 264, 299,
\* 101 and 108 never go below zero without a panic, and what is returned and
\* committed lies within the input.
C23_NoWrappedAmount ==
    /\ [][FillSucceeds =>
            /\ ConsumedNow <= total_unfilled_1
            /\ total_unfilled_1' =
                  (total_unfilled_1 - IterationInput(total_unfilled_1))
                     + (total_unfilled_1 - ConsumedNow)]_vars
    /\ [](failure = "unable to subtract unfilled input from total input" =>
            pc = "panic" /\ output_data = {})
    /\ [](failure = "attempt to subtract with overflow" =>
            pc = "panic" /\ output_data = {} /\ total_unfilled_1 > input)
    /\ [](\A d \in 1..2 : \A e \in ExecutionOf(d) :
            e.input \in 0..(IF d = 1 THEN delta_1 ELSE delta_2))
    /\ [](\A data \in output_data :
            /\ data.unfilled_1 \in 0..delta_1
            /\ data.unfilled_2 \in 0..delta_2)

(***************************************************************************)
(* C24  route_and_fill returns SwapExecution{input, output} with input the *)
(* call's input minus the final total_unfilled_1 and output the sum of the *)
(* outputs of all successful fills; a call in which no fill succeeded      *)
(* returns input 0, output 0 and no traces.                                *)
(***************************************************************************)
C24_ReturnedTotals ==
    CallEnded /\ Returned(dir) =>
        \A e \in ExecutionOf(dir) :
            /\ e.input = input - total_unfilled_1
            /\ total_unfilled_1 <= input
            /\ e.output = produced
            /\ e.output = total_output_2
            /\ SuccessfulFills = 0 =>
                  e = [traces |-> <<>>, input |-> 0, output |-> 0]

\* direction 1 returned after two successful fills with an output each
C24_Witness ==
    /\ CallEnded /\ dir = 1 /\ SuccessfulFills = 2
    /\ \E e \in swap_execution_1_for_2 : e.output = 2 /\ e.input > 0

\* a call whose only fill attempt overflowed returned the empty execution
C24_WitnessNoFill ==
    /\ CallEnded /\ dir = 2 /\ overflows = 1 /\ SuccessfulFills = 0
    /\ swap_execution_2_for_1 = {[traces |-> <<>>, input |-> 0, output |-> 0]}

\* (lambda, unfilled) as the record must hold them for a direction with input
\* delta whose committed Option<SwapExecution> is swap_execution
Derived(swap_execution, delta, lambda, unfilled) ==
    IF ~HasInput(delta)
    THEN swap_execution = {} /\ lambda = 0 /\ unfilled = delta
    ELSE /\ swap_execution # {}
         /\ \A e \in swap_execution :
               lambda = e.output /\ unfilled + e.input = delta

(***************************************************************************)
(* C25  The committed record is assembled crosswise and leaves the inputs  *)
(* untouched: lambda_2 and unfilled_1 come from the execution of direction *)
(* 1 (or are 0 and delta_1 when it was skipped), lambda_1 and unfilled_2   *)
(* from the execution of direction 2; delta_1, delta_2, height,            *)
(* epoch_starting_height and trading_pair are the arguments of the call;   *)
(* the SwapExecution committed for a direction is the one its call         *)
(* returned and is absent exactly when the direction was skipped.          *)
(***************************************************************************)
C25_RecordAssembledCrosswise ==
    /\ Committed <=> output_data # {}
    /\ \A data \in output_data :
          /\ data.delta_1 = delta_1
          /\ data.delta_2 = delta_2
          /\ data.height = block_height
          /\ data.epoch_starting_height = epoch_starting_height
          /\ data.trading_pair = trading_pair
          /\ stored_executions = <<swap_execution_1_for_2, swap_execution_2_for_1>>
          /\ Derived(stored_executions[1], delta_1, data.lambda_2, data.unfilled_1)
          /\ Derived(stored_executions[2], delta_2, data.lambda_1, data.unfilled_2)
          /\ \A d \in 1..2 : \A e \in stored_executions[d] :
                \A i \in 1..Len(e.traces) : e.traces[i][1] = d
    /\ output_data = {} => stored_executions = <<{}, {}>>

\* both directions ran and differ in what they gave and left
C25_Witness ==
    /\ Committed /\ delta_1 = 2 /\ delta_2 = 1
    /\ \E data \in output_data :
          /\ data.lambda_2 = 1 /\ data.unfilled_1 = 1
          /\ data.lambda_1 = 0 /\ data.unfilled_2 = 0

\* direction 1 was skipped, direction 2 ran
C25_WitnessSkipped ==
    /\ Committed /\ delta_1 = 0 /\ delta_2 = 2
    /\ stored_executions[1] = {} /\ stored_executions[2] # {}
    /\ \E data \in output_data : data.lambda_1 = 1 /\ data.unfilled_2 = 1

\* this step mutates the state of the engine: a fill_route call, a
\* close_position_by_id call, or set_output_data
Mutates ==
    \/ calls'.fill_route > calls.fill_route
    \/ calls'.close_position > calls.close_position
    \/ writes' > writes
    \/ output_data' # output_data
    \/ stored_executions' # stored_executions

\* the call halts on the refused mutable reference, nothing else changed
RefusedFatally ==
    /\ pc' = "panic"
    /\ failure' = "expected state to have no other refs"
    /\ UNCHANGED <<args, other_refs, store, value_circuit_breaker, results, dir,
                   loop, history>>

(***************************************************************************)
(* C26  Every mutation of the engine's state (fill_route,                  *)
(* close_position_by_id, set_output_data) is made only while the caller    *)
(* holds the sole reference to the state: with another reference at a      *)
(* mutation step the call halts fatally and the mutation is not made; the  *)
(* step is never skipped or carried on without it.                         *)
(***************************************************************************)
C26_MutationsNeedSoleReference ==
    /\ [][Mutates => ~other_refs]_vars
    /\ [][((pc = "fill_route" \/ pc = "close_position") /\ other_refs /\ pc' # pc)
            => RefusedFatally]_vars
    /\ [][(pc = "assemble" /\ other_refs /\ pc' # pc) =>
            /\ pc' = "panic"
            /\ failure' # ""
            /\ UNCHANGED <<args, other_refs, store, value_circuit_breaker, results,
                           dir, loop, history>>]_vars
    /\ [](failure = "expected state to have no other refs" =>
            /\ pc = "panic"
            /\ other_refs
            /\ writes = 0 /\ output_data = {} /\ calls.fill_route = 0)
    /\ [](Committed => ~other_refs)

\* the first fill_route of direction 2 was refused: the state was shared
C26_Witness ==
    /\ failure = "expected state to have no other refs"
    /\ dir = 2 /\ Returned(1)
    /\ calls.path_search = 1 /\ calls.fill_route = 0
    /\ other_refs

\* the commit was refused after both directions were skipped or found no path
C26_WitnessCommit ==
    /\ failure = "expected state to have no other refs"
    /\ DirectionsFinished
    /\ other_refs /\ writes = 0

\* a step from one phase of handle_batch_swaps to the next one: a phase is
\* passed over only when it is a direction without input
NextPhase ==
    \/ PhaseRank' = PhaseRank - 1
    \/ PhaseRank = 5 /\ PhaseRank' = 3 /\ ~HasInput(delta_1)
    \/ PhaseRank = 3 /\ PhaseRank' = 1 /\ ~HasInput(delta_2)

(***************************************************************************)
(* C27  handle_batch_swaps moves through its phases in one fixed order and *)
(* never backwards: the value circuit breaker snapshot is loaded before    *)
(* any path search or fill, direction 1 finishes before direction 2        *)
(* starts, the record is assembled and checked against the snapshot taken  *)
(* before execution, which no fill updates, and the commit comes last.     *)
(***************************************************************************)
C27_PhasesInOrder ==
    /\ [][PhaseRank' <= PhaseRank]_vars
    /\ [][(pc' \notin {"error", "panic"} /\ PhaseRank' # PhaseRank) => NextPhase]_vars
    /\ [](pc = "load_value_breaker" =>
            /\ dir = 0 /\ calls = NoCalls
            /\ swap_execution_1_for_2 = {} /\ swap_execution_2_for_1 = {})
    /\ []((pc # "load_value_breaker"
              /\ failure # "able to retrieve value circuit breaker from nonverifiable storage")
            => value_circuit_breaker = Snapshot(nv_value_breaker))
    /\ [][pc # "load_value_breaker" =>
            UNCHANGED <<value_circuit_breaker, nv_value_breaker>>]_vars
    /\ [](dir = 1 => swap_execution_2_for_1 = {})
    /\ [](dir = 2 => (HasInput(delta_1) <=> Returned(1)))
    /\ [][dir = 2 => UNCHANGED swap_execution_1_for_2]_vars
    /\ [](pc \in {"assemble", "done"} => DirectionsFinished)
    /\ [](\A data \in output_data :
            /\ data.lambda_1 <= Available(Snapshot(nv_value_breaker), 1)
            /\ data.lambda_2 <= Available(Snapshot(nv_value_breaker), 2))
    /\ [][writes' # writes => pc = "assemble" /\ pc' = "done"]_vars
    /\ [][pc # "done"]_vars

\* committed after both directions ran, each with a fill that gave output
C27_Witness ==
    /\ Committed
    /\ Returned(1) /\ Returned(2)
    /\ nv_value_breaker # {}
    /\ \E data \in output_data : data.lambda_1 = 1 /\ data.lambda_2 = 1

(***************************************************************************)
(* C28  In every state of a route_and_fill call total_unfilled_1 is at     *)
(* most the input of the call and never grows from one iteration to the    *)
(* next.                                                                   *)
(* The code breaks this when the input exceeds MAX_RESERVE_AMOUNT: after a *)
(* fill that consumed less than half of delta_1.amount, lines 249 and 264  *)
(* leave total_unfilled_1 larger than it was, and larger than the input.   *)
(***************************************************************************)
C28_UnfilledWithinInput ==
    /\ [](dir # 0 => total_unfilled_1 <= input)
    /\ [][InCall => total_unfilled_1' <= total_unfilled_1]_vars

\* what the code does keep of C28: with an input within MAX_RESERVE_AMOUNT
\* total_unfilled_1 stays within the input and never grows; whatever the
\* input, a returned execution's input and a committed unfilled amount lie
\* within the direction's delta, because line 299 halts the call otherwise
C28_WithinInputWhenUncapped ==
    /\ []((dir # 0 /\ input <= MAX_RESERVE_AMOUNT) => total_unfilled_1 <= input)
    /\ [][(InCall /\ input <= MAX_RESERVE_AMOUNT) =>
            total_unfilled_1' <= total_unfilled_1]_vars
    /\ []((CallEnded /\ Returned(dir)) =>
            \A e \in ExecutionOf(dir) : e.input \in 0..input)
    /\ [](\A data \in output_data :
            /\ data.unfilled_1 \in 0..data.delta_1
            /\ data.unfilled_2 \in 0..data.delta_2)

====
